---- MODULE Spec2Model ----
(***************************************************************************)
(* The calculator of code/calculator: a string is tokenized                *)
(* (parsemath/tokenizer.rs), parsed by recursive descent into an           *)
(* Expression tree (parsemath/parser.rs) and the tree is evaluated or      *)
(* rendered back to text by a visitor (parsemath/visitors.rs).             *)
(* Calculator::run (calcmath/calc.rs) does this for every line it reads    *)
(* from its Console and writes the value or the error back.                *)
(*                                                                         *)
(* Representation.  A string is a sequence of one-character strings.  An   *)
(* enum value is a tuple whose first element is the variant's name:        *)
(* <<"Plus">>, <<"Number", v>>, <<"Add", l, r>>, Ok(x) = <<"Ok", x>>.      *)
(* An f64 is the IEEE 754 binary64 value itself, <<"Finite", sign, P, k>>   *)
(* for (-1)^sign * P * 2^k, with its arithmetic rounded to nearest, ties   *)
(* to even, and its text the shortest digits that read back as the value.  *)
(***************************************************************************)
EXTENDS Integers, Sequences, FiniteSets, TLC

VARIABLES
    input,                \* the &str handed to Parser::new
    phase,                \* where the caller is in the pipeline
    tokens,               \* Parser.tokens
    current_token_index,  \* Parser.current_token_index (0-based, as in Rust)
    bracket_count,        \* Parser.bracket_count
    stack,                \* the call stack of parse(): one frame per active call
    ret,                  \* the value the last finished call returned
    new_result,           \* what Parser::new returned
    parse_result,         \* what Parser::parse returned
    ast,                  \* the Expression the caller holds
    value,                \* what Evaluator.visit_expression returned
    text,                 \* what PrettyPrinterVisitor.visit_expression returned
    original,             \* the first pass's tokens and tree, kept by a round trip
    console,              \* the calls Calculator.run has made on its Console
    run_pc                \* where Calculator.run is ("off" when it is not running)

vars == <<input, phase, tokens, current_token_index, bracket_count, stack, ret,
          new_result, parse_result, ast, value, text, original, console,
          run_pc>>

(***************************************************************************)
(* Bounds of the checked instances.                                        *)
(***************************************************************************)
\* longest input over the full character alphabet
MaxLen == 3
\* longest input over the token alphabet
MaxTokens == 5
\* most binary operators in an operator chain 1 op 2 op 3 ...
MaxChainOps == 3
\* most nodes of a tree handed directly to a visitor
MaxNodes == 5
\* most lines Calculator::run reads from its Console
MaxRunLines == 3

None == <<"None">>
Ok(x) == <<"Ok", x>>
Err(e) == <<"Err", e>>
IsOk(r) == r[1] = "Ok"
IsErr(r) == r[1] = "Err"

(***************************************************************************)
(* Natural numbers of any size.  TLC's integers are 32 bits wide and the   *)
(* significand of an f64 has 53, so a natural number is the sequence of    *)
(* its digits in base 2^15, the least significant first and the most       *)
(* significant not 0: <<>> is 0, <<5>> is 5, <<0, 1>> is 32768.            *)
(***************************************************************************)
LimbBits == 15
Limb == 32768

\* 2^k, for k < 31
RECURSIVE Pow2(_)
Pow2(k) == IF k = 0 THEN 1 ELSE 2 * Pow2(k - 1)

\* the number of binary digits of the integer n >= 0
RECURSIVE IntBitLen(_)
IntBitLen(n) == IF n = 0 THEN 0 ELSE 1 + IntBitLen(n \div 2)

\* the greatest and the least of a set of integers that is not empty
Greatest(S) == CHOOSE i \in S : \A j \in S : j <= i
Least(S) == CHOOSE i \in S : \A j \in S : i <= j

\* the states of a loop: sequences of sequences of integers
LoopStates == Seq(Seq(Int))

\* step[..step[step[start, 1], 2].., n]: a loop of n rounds, evaluated by
\* halving the range of rounds
Iterate(step, n, start) ==
    LET run[lo \in Nat, hi \in Nat, state \in LoopStates] ==
            IF lo > hi THEN state
            ELSE IF lo = hi THEN step[state, lo]
            ELSE run[(lo + hi) \div 2 + 1, hi, run[lo, (lo + hi) \div 2, state]]
    IN  run[1, n, start]

\* the digits a without zeros at the most significant end
NatNorm(a) ==
    LET significant == {i \in DOMAIN a : a[i] # 0}
    IN  IF significant = {} THEN <<>> ELSE SubSeq(a, 1, Greatest(significant))

NatOfInt(n) ==
    NatNorm(<<n % Limb, (n \div Limb) % Limb, n \div (Limb * Limb)>>)

NatOne == NatOfInt(1)

NatIsOdd(a) == a # <<>> /\ a[1] % 2 = 1

\* a < b
NatLess(a, b) ==
    IF Len(a) # Len(b) THEN Len(a) < Len(b)
    ELSE \E i \in DOMAIN a :
            a[i] < b[i] /\ \A j \in (i + 1)..Len(a) : a[j] = b[j]

\* digit i of a, 0 above the most significant
NatDigit(a, i) == IF i <= Len(a) THEN a[i] ELSE 0

\* the digits so far with the low digit of x, and the carry of x
Carried(digits, x) == <<Append(digits, x % Limb), <<x \div Limb>>>>

\* the digits so far with the digit x, made positive by a borrow
Borrowed(digits, x) ==
    <<Append(digits, IF x < 0 THEN x + Limb ELSE x), <<IF x < 0 THEN 1 ELSE 0>>>>

\* the digits and the carry of a loop over digits put together
WithCarry(state) ==
    IF state[2][1] = 0 THEN state[1] ELSE Append(state[1], state[2][1])

\* a + b + c, for a carry c < Limb
NatAddCarry(a, b, c) ==
    LET AddDigit[state \in LoopStates, i \in Nat] ==
            Carried(state[1], NatDigit(a, i) + NatDigit(b, i) + state[2][1])
    IN  WithCarry(Iterate(AddDigit, IF Len(a) < Len(b) THEN Len(b) ELSE Len(a),
                          <<<<>>, <<c>>>>))

NatAdd(a, b) == NatAddCarry(a, b, 0)

\* a - b, for a >= b
NatSub(a, b) ==
    LET SubDigit[state \in LoopStates, i \in Nat] ==
            Borrowed(state[1], a[i] - NatDigit(b, i) - state[2][1])
    IN  NatNorm(Iterate(SubDigit, Len(a), <<<<>>, <<0>>>>)[1])

\* a * m + c, for 0 < m < Limb and c < Limb
NatMulSmallCarry(a, m, c) ==
    LET MulDigit[state \in LoopStates, i \in Nat] ==
            Carried(state[1], a[i] * m + state[2][1])
    IN  WithCarry(Iterate(MulDigit, Len(a), <<<<>>, <<c>>>>))

NatMulSmall(a, m) == IF m = 0 THEN <<>> ELSE NatMulSmallCarry(a, m, 0)

\* a * Limb^n
NatShiftDigits(a, n) == IF a = <<>> THEN <<>> ELSE [i \in 1..n |-> 0] \o a

\* a * b, a digit of b at a time
NatMul(a, b) ==
    LET AddProduct[state \in LoopStates, i \in Nat] ==
            <<NatAdd(state[1], NatShiftDigits(NatMulSmall(a, b[i]), i - 1))>>
    IN  Iterate(AddProduct, Len(b), <<<<>>>>)[1]

\* a * 10^n
NatMulPow10(a, n) ==
    LET TimesTen[state \in LoopStates, i \in Nat] == <<NatMulSmall(state[1], 10)>>
    IN  Iterate(TimesTen, n, <<a>>)[1]

\* a * 2^n
NatShiftLeft(a, n) ==
    NatShiftDigits(NatMulSmall(a, Pow2(n % LimbBits)), n \div LimbBits)

\* the number of binary digits of a
NatBitLen(a) ==
    IF a = <<>> THEN 0 ELSE LimbBits * (Len(a) - 1) + IntBitLen(a[Len(a)])

\* binary digit i of a (digit 0 is the least significant)
NatBit(a, i) == (a[i \div LimbBits + 1] \div Pow2(i % LimbBits)) % 2

\* the digits of n \div m, leading zeros kept, and <<n % m>>, for
\* 0 < m <= Limb, by short division from the most significant digit
NatDivSmall(n, m) ==
    LET DivDigit[state \in LoopStates, i \in Nat] ==
            <<<<(state[2][1] * Limb + n[Len(n) + 1 - i]) \div m>> \o state[1],
              <<(state[2][1] * Limb + n[Len(n) + 1 - i]) % m>>>>
    IN  Iterate(DivDigit, Len(n), <<<<>>, <<0>>>>)

\* <<n \div m, n % m>>, for m > 0, by long division in binary: the digits of
\* n are brought down one by one from the most significant into the
\* remainder r, and m is taken from it where it is there
NatDivModLong(n, m) ==
    LET Subtracted(q, r) ==
            IF NatLess(r, m) THEN <<NatMulSmallCarry(q, 2, 0), r>>
            ELSE <<NatMulSmallCarry(q, 2, 1), NatSub(r, m)>>
        BringDown[state \in LoopStates, i \in Nat] ==
            Subtracted(state[1],
                       NatMulSmallCarry(state[2], 2, NatBit(n, NatBitLen(n) - i)))
    IN  Iterate(BringDown, NatBitLen(n), <<<<>>, <<>>>>)

\* <<n \div m, n % m>>, for m > 0
NatDivMod(n, m) ==
    LET OfSmall(qr) == <<NatNorm(qr[1]), NatOfInt(qr[2][1])>>
    IN  IF Len(m) = 1 THEN OfSmall(NatDivSmall(n, m[1]))
        ELSE NatDivModLong(n, m)

\* a \div 2^n
NatShiftRight(a, n) ==
    IF n \div LimbBits >= Len(a) THEN <<>>
    ELSE NatNorm(NatDivSmall(SubSeq(a, n \div LimbBits + 1, Len(a)),
                             Pow2(n % LimbBits))[1])

\* a % 2^n
NatLowBits(a, n) ==
    IF n \div LimbBits >= Len(a) THEN a
    ELSE NatNorm(Append(SubSeq(a, 1, n \div LimbBits),
                        a[n \div LimbBits + 1] % Pow2(n % LimbBits)))

(***************************************************************************)
(* f64 (IEEE 754 binary64, round to nearest, ties to even).  A value is    *)
(*   <<"Finite", sign, P, k>>   (-1)^sign * P * 2^k, with P an odd natural *)
(*                              number, or P = 0 and k = 0 for the zeros   *)
(*   <<"Infinite", sign>>       the infinities                             *)
(*   <<"NaN">>                  not a number                               *)
(* with sign 0 for + and 1 for -.  1.0 is <<"Finite", 0, <<1>>, 0>>, -0.5  *)
(* is <<"Finite", 1, <<1>>, -1>>.  Every operation computes the exact      *)
(* result and rounds it to the nearest value with a significand of 53      *)
(* binary digits and a unit no smaller than 2^-1074.                       *)
(***************************************************************************)
Finite(sign, P, k) == <<"Finite", sign, P, k>>
Infinite(sign) == <<"Infinite", sign>>
NaN == <<"NaN">>

\* the binary digits of a significand
SignificandBits == 53
\* the smallest significand's unit is 2^-SubnormalExponent
SubnormalExponent == 1074
\* every finite value is below 2^OverflowExponent
OverflowExponent == 1024

IsFinite(v) == v[1] = "Finite"
IsInfinite(v) == v[1] = "Infinite"
IsNaN(v) == v[1] = "NaN"
IsZero(v) == IsFinite(v) /\ v[3] = <<>>

\* how many times the integer n > 0 can be halved
TrailingZeros(n) == Least({t \in 0..LimbBits : (n \div Pow2(t)) % 2 = 1})

\* the value M * 2^(q - zeros), for M > 0 with zeros binary zeros at its end
Shifted(sign, M, q, zeros) == Finite(sign, NatShiftRight(M, zeros), q + zeros)

\* the binary zeros at the end of M > 0, whose least digit that is not 0 is
\* digit low
ZerosBelow(M, low) == LimbBits * (low - 1) + TrailingZeros(M[low])

\* the value M * 2^q, which is an f64, with the significand made odd
Canonical(sign, M, q) ==
    IF M = <<>> THEN Finite(sign, <<>>, 0)
    ELSE Shifted(sign, M, q, ZerosBelow(M, Least({i \in DOMAIN M : M[i] # 0})))

\* the f64 of the integer n, for |n| < 2^31
F64OfInt(n) ==
    Canonical(IF n < 0 THEN 1 ELSE 0, NatOfInt(IF n < 0 THEN 0 - n ELSE n), 0)

\* M * 2^q, or an infinity when that is 2^1024 or more
Bounded(sign, M, q) ==
    IF NatBitLen(M) + q > OverflowExponent THEN Infinite(sign)
    ELSE Canonical(sign, M, q)

\* the exponent of the unit of the 53-digit significand of a value whose
\* leading binary digit has the exponent top
UnitExponent(top) ==
    IF top - (SignificandBits - 1) < 0 - SubnormalExponent
    THEN 0 - SubnormalExponent
    ELSE top - (SignificandBits - 1)

\* kept, or kept + 1: the nearer to kept + (rest + x) / (2 * half), ties to
\* the even one
Nearest(kept, rest, half, sticky) ==
    IF \/ NatLess(half, rest)
       \/ ~NatLess(rest, half) /\ (sticky \/ NatIsOdd(kept))
    THEN NatAdd(kept, NatOne)
    ELSE kept

\* Round, for N > 0 and the unit 2^q of the result
RoundTo(sign, N, k, sticky, q) ==
    IF q <= k THEN Bounded(sign, N, k)
    ELSE Bounded(sign,
                 Nearest(NatShiftRight(N, q - k), NatLowBits(N, q - k),
                         NatShiftLeft(NatOne, q - k - 1), sticky),
                 q)

\* the f64 nearest to (N + x) * 2^k, where x = 0, or 0 < x < 1 when sticky
\* (and then N has more than 54 binary digits); ties go to the even
\* significand, a result of 2^1024 or more is an infinity
Round(sign, N, k, sticky) ==
    IF N = <<>> THEN Finite(sign, <<>>, 0)
    ELSE RoundTo(sign, N, k, sticky, UnitExponent(NatBitLen(N) - 1 + k))

\* the binary digits to add to N for N / D to have 55 or more
QuotientShift(N, D) ==
    IF SignificandBits + 2 + NatBitLen(D) - NatBitLen(N) > 0
    THEN SignificandBits + 2 + NatBitLen(D) - NatBitLen(N)
    ELSE 0

\* Round of the quotient qr[1], the remainder qr[2] the sticky digit
RoundDivided(sign, qr, k) == Round(sign, qr[1], k, qr[2] # <<>>)

\* RoundQuotient with the dividend made longer by shift binary digits
RoundShifted(sign, N, D, k, shift) ==
    RoundDivided(sign, NatDivMod(NatShiftLeft(N, shift), D), k - shift)

\* the f64 nearest to N / D * 2^k, for N > 0 and D > 0: the quotient is
\* taken to 55 binary digits or more, and the remainder is the sticky digit
RoundQuotient(sign, N, D, k) ==
    IF D = NatOne THEN Round(sign, N, k, FALSE)
    ELSE RoundShifted(sign, N, D, k, QuotientShift(N, D))

\* a == b of f64: a NaN equals nothing, the two zeros are equal
F64Eq(a, b) ==
    /\ ~IsNaN(a) /\ ~IsNaN(b)
    /\ a = b \/ (IsZero(a) /\ IsZero(b))

F64Neg(a) == IF IsNaN(a) THEN a ELSE [a EXCEPT ![2] = 1 - a[2]]

\* A * 2^k with the sign sa plus B * 2^k with the sign sb, for A, B > 0
AlignedAdd(sa, A, sb, B, k) ==
    IF sa # sb /\ A = B THEN Finite(0, <<>>, 0)
    ELSE Round(IF sa = sb \/ NatLess(B, A) THEN sa ELSE sb,
               IF sa = sb THEN NatAdd(A, B)
               ELSE IF NatLess(B, A) THEN NatSub(A, B) ELSE NatSub(B, A),
               k, FALSE)

\* AlignedAdd of a and b brought to the unit 2^k
AddAt(a, b, k) ==
    AlignedAdd(a[2], NatShiftLeft(a[3], a[4] - k),
               b[2], NatShiftLeft(b[3], b[4] - k), k)

\* a + b of finite a and b
FiniteAdd(a, b) ==
    IF IsZero(a) /\ IsZero(b)
    THEN Finite(IF a[2] = 1 /\ b[2] = 1 THEN 1 ELSE 0, <<>>, 0)
    ELSE IF IsZero(a) THEN b
    ELSE IF IsZero(b) THEN a
    ELSE AddAt(a, b, IF a[4] < b[4] THEN a[4] ELSE b[4])

F64Add(a, b) ==
    IF IsNaN(a) \/ IsNaN(b) THEN NaN
    ELSE IF IsInfinite(a)
    THEN IF IsInfinite(b) /\ a[2] # b[2] THEN NaN ELSE a
    ELSE IF IsInfinite(b) THEN b
    ELSE FiniteAdd(a, b)

F64Sub(a, b) == F64Add(a, F64Neg(b))

\* the sign of a product and of a quotient
SignOf(a, b) == IF a[2] = b[2] THEN 0 ELSE 1

F64Mul(a, b) ==
    IF IsNaN(a) \/ IsNaN(b) THEN NaN
    ELSE IF IsInfinite(a) \/ IsInfinite(b)
    THEN IF IsZero(a) \/ IsZero(b) THEN NaN ELSE Infinite(SignOf(a, b))
    ELSE IF IsZero(a) \/ IsZero(b) THEN Finite(SignOf(a, b), <<>>, 0)
    ELSE Round(SignOf(a, b), NatMul(a[3], b[3]), a[4] + b[4], FALSE)

F64Div(a, b) ==
    IF IsNaN(a) \/ IsNaN(b) THEN NaN
    ELSE IF IsInfinite(a)
    THEN IF IsInfinite(b) THEN NaN ELSE Infinite(SignOf(a, b))
    ELSE IF IsInfinite(b) THEN Finite(SignOf(a, b), <<>>, 0)
    ELSE IF IsZero(b)
    THEN IF IsZero(a) THEN NaN ELSE Infinite(SignOf(a, b))
    ELSE IF IsZero(a) THEN Finite(SignOf(a, b), <<>>, 0)
    ELSE RoundQuotient(SignOf(a, b), a[3], b[3], a[4] - b[4])

(***************************************************************************)
(* Tokenizer (parsemath/tokenizer.rs).                                     *)
(***************************************************************************)
Plus == <<"Plus">>
Minus == <<"Minus">>
Star == <<"Star">>
Slash == <<"Slash">>
LeftParen == <<"LeftParen">>
RightParen == <<"RightParen">>
Number(v) == <<"Number", v>>

InvalidCharacter(c) == <<"InvalidCharacter", c>>
InvalidNumber == <<"InvalidNumber">>

Digits == {"0", "1", "2", "3", "4", "5", "6", "7", "8", "9"}

DigitValue(c) ==
    CASE c = "0" -> 0 [] c = "1" -> 1 [] c = "2" -> 2 [] c = "3" -> 3
      [] c = "4" -> 4 [] c = "5" -> 5 [] c = "6" -> 6 [] c = "7" -> 7
      [] c = "8" -> 8 [] c = "9" -> 9

\* Mutant of skip_whitespace: a tab is skipped like a space.
RECURSIVE skip_whitespace_and_tabs(_)
skip_whitespace_and_tabs(expr) ==
    IF expr # <<>> /\ Head(expr) \in {" ", "\t"}
    THEN skip_whitespace_and_tabs(Tail(expr))
    ELSE expr

RECURSIVE skip_whitespace(_)
skip_whitespace(expr) ==
    IF expr # <<>> /\ Head(expr) = " "
    THEN skip_whitespace(Tail(expr))
    ELSE expr

\* the digits of s read as one decimal number, the '.' skipped
DigitsValue(s) ==
    LET ReadDigit[state \in LoopStates, i \in Nat] ==
            IF s[i] = "." THEN state
            ELSE <<NatAddCarry(NatMulSmall(state[1], 10), <<>>,
                               DigitValue(s[i]))>>
    IN  Iterate(ReadDigit, Len(s), <<<<>>>>)[1]

DotPositions(s) == {i \in 1..Len(s) : s[i] = "."}

\* str::parse::<f64> on a lexeme of digits and '.' that starts with a digit:
\* Digit+ and Digit+ '.' Digit* are floats, the f64 nearest to the decimal
\* number, which is its digits over 10 to the number of digits after the
\* '.'; a second '.' is an error
ParseF64(number_str) ==
    LET Decimal(number, frac) ==
            IF number = <<>> THEN Finite(0, <<>>, 0)
            ELSE RoundQuotient(0, number, NatMulPow10(NatOne, frac), 0)
    IN  IF Cardinality(DotPositions(number_str)) > 1 THEN Err(InvalidNumber)
        ELSE Ok(Decimal(DigitsValue(number_str),
                        IF DotPositions(number_str) = {} THEN 0
                        ELSE Len(number_str) - Least(DotPositions(number_str))))

\* Mutant of NumberRun: the run ends before a second '.'.
NumberRunOneDot(number_str, expr) ==
    LET taken == Least({k \in 0..Len(expr) :
                    \/ k = Len(expr)
                    \/ expr[k + 1] \notin Digits \cup {"."}
                    \/ /\ expr[k + 1] = "."
                       /\ DotPositions(number_str \o SubSeq(expr, 1, k)) # {}})
    IN  [number_str |-> number_str \o SubSeq(expr, 1, taken),
         expr |-> SubSeq(expr, taken + 1, Len(expr))]

\* the loop of tokenize_number: while the next character is a digit or '.'
\* it is pushed to number_str, so the loop stops at the first character that
\* is neither, or at the end, and has taken the characters before it
NumberRun(number_str, expr) ==
    LET taken == Least({k \in 0..Len(expr) :
                    k = Len(expr) \/ expr[k + 1] \notin Digits \cup {"."}})
    IN  [number_str |-> number_str \o SubSeq(expr, 1, taken),
         expr |-> SubSeq(expr, taken + 1, Len(expr))]

\* tokenize_number(c) with the characters after c: the item and what is left
tokenize_number(c, expr) ==
    LET run == NumberRun(<<c>>, expr)
        number == ParseF64(run.number_str)
    IN  [item |-> IF IsOk(number) THEN Ok(Number(number[2])) ELSE number,
         expr |-> run.expr]

\* Iterator::next of Tokenizer: None at the end of the input, else Some(item)
\* and the characters left in self.expr
TokenizerNext(expr0) ==
    LET expr == skip_whitespace(expr0)
    IN  IF expr = <<>> THEN [some |-> FALSE, item |-> None, expr |-> expr]
        ELSE LET c == Head(expr)
                 rest == Tail(expr)
             IN  CASE c = "+" -> [some |-> TRUE, item |-> Ok(Plus), expr |-> rest]
                   [] c = "-" -> [some |-> TRUE, item |-> Ok(Minus), expr |-> rest]
                   [] c = "*" -> [some |-> TRUE, item |-> Ok(Star), expr |-> rest]
                   [] c = "/" -> [some |-> TRUE, item |-> Ok(Slash), expr |-> rest]
                   [] c = "(" -> [some |-> TRUE, item |-> Ok(LeftParen), expr |-> rest]
                   [] c = ")" -> [some |-> TRUE, item |-> Ok(RightParen), expr |-> rest]
                   [] c \in Digits ->
                        LET t == tokenize_number(c, rest)
                        IN  [some |-> TRUE, item |-> t.item, expr |-> t.expr]
                   [] OTHER ->
                        [some |-> TRUE, item |-> Err(InvalidCharacter(c)), expr |-> rest]

\* Mutant of Collect: the iterator is read to its end and the error kept is
\* the last one it yielded.
RECURSIVE CollectLastError(_, _)
CollectLastError(expr, acc) ==
    LET n == TokenizerNext(expr)
    IN  IF ~n.some THEN (IF acc = <<>> THEN Ok(<<>>) ELSE acc)
        ELSE IF IsErr(n.item) THEN CollectLastError(n.expr, n.item)
        ELSE IF acc # <<>> /\ IsErr(acc) THEN CollectLastError(n.expr, acc)
        ELSE CollectLastError(n.expr, IF acc = <<>> THEN Ok(<<n.item[2]>>)
                                      ELSE Ok(Append(acc[2], n.item[2])))

\* collect::<Result<Vec<Token>, TokenizingError>>(): the tokens up to the end of
\* the input, or the first Err the iterator yields (nothing is read after it)
RECURSIVE Collect(_, _)
Collect(expr, acc) ==
    LET n == TokenizerNext(expr)
    IN  IF ~n.some THEN Ok(acc)
        ELSE IF IsErr(n.item) THEN n.item
        ELSE Collect(n.expr, Append(acc, n.item[2]))

UnexpectedToken(e) == <<"UnexpectedToken", e>>
SyntaxError(msg) == <<"SyntaxError", msg>>

\* Parser::new: Ok(tokens) stands for the parser built around them
ParserNew(expression) ==
    LET collected == Collect(expression, <<>>)
    IN  IF IsErr(collected) THEN Err(UnexpectedToken(collected[2]))
        ELSE collected

(***************************************************************************)
(* Expression (parsemath/parser.rs).  Expression::Number(n) is the tuple   *)
(* Number(n) of the token that carried n.                                  *)
(***************************************************************************)
Add(l, r) == <<"Add", l, r>>
Subtract(l, r) == <<"Subtract", l, r>>
Multiply(l, r) == <<"Multiply", l, r>>
Divide(l, r) == <<"Divide", l, r>>
Negate(e) == <<"Negate", e>>
Grouping(e) == <<"Grouping", e>>

(***************************************************************************)
(* Parser (parsemath/parser.rs).  parse() runs as a stack machine: a frame *)
(* is one active call of term, factor, unary or primary, and pc names the  *)
(* place in its body where it goes on when its callee has returned.        *)
(*   term:    "entry", "left" (first factor), "add" / "subtract" (right)   *)
(*   factor:  "entry", "left" (first unary), "multiply" / "divide" (right) *)
(*   unary:   "entry", "negate" (the operand of '-')                       *)
(*   primary: "entry", "group" (the expression after '(')                  *)
(***************************************************************************)
Frame(fn) == [fn |-> fn, pc |-> "entry", expression |-> None]

Top == stack[Len(stack)]
Caller == SubSeq(stack, 1, Len(stack) - 1)

\* the running call waits at pc, holding expression, for a new call of fn
CallFrom(pc, expression, fn) ==
    Append(Append(Caller, [fn |-> Top.fn, pc |-> pc, expression |-> expression]),
           Frame(fn))

\* expression() is term(): it calls term and returns its result as it is
ExpressionFrame == "term"

\* Mutant of is_at_end: the cursor on tokens.len() is not yet the end.
is_at_end_past == current_token_index > Len(tokens)

is_at_end == current_token_index >= Len(tokens)

\* tokens[i] of a Vec (i counts from 0): an index out of range panics
IndexPanic == <<"Panic">>
Index(ts, i) == IF i < Len(ts) THEN ts[i + 1] ELSE IndexPanic

\* Option<Token>: None, or the token itself for Some(token)
peek == IF is_at_end THEN None ELSE Index(tokens, current_token_index)

\* consume(): the cursor moves unless it is at the end
consume == current_token_index' =
               IF ~is_at_end THEN current_token_index + 1 ELSE current_token_index

\* next(): the cursor moves even at the end; the caller matches on peek
next == current_token_index' = current_token_index + 1

\* return r to the caller
Return(r) == stack' = Caller /\ ret' = r

\* Mutant of TermLoop: the right operand of + and - is parsed by term(), which
\* takes every following + and - with it.
TermLoopRightRecursive(expression) ==
    CASE peek = Plus ->
            /\ consume
            /\ stack' = CallFrom("add", expression, "term")
            /\ ret' = None
      [] peek = Minus ->
            /\ consume
            /\ stack' = CallFrom("subtract", expression, "term")
            /\ ret' = None
      [] peek = RightParen /\ bracket_count = 0 ->
            /\ Return(Err(SyntaxError("Too many ')'.")))
            /\ UNCHANGED current_token_index
      [] peek = LeftParen /\ bracket_count = 0 ->
            /\ Return(Err(SyntaxError("Unexpected '('.")))
            /\ UNCHANGED current_token_index
      [] OTHER ->
            /\ Return(Ok(expression))
            /\ UNCHANGED current_token_index

\* Mutant of TermLoop: the arm for '(' at depth 0 is missing.
TermLoopNoLeftParenArm(expression) ==
    CASE peek = Plus ->
            /\ consume
            /\ stack' = CallFrom("add", expression, "factor")
            /\ ret' = None
      [] peek = Minus ->
            /\ consume
            /\ stack' = CallFrom("subtract", expression, "factor")
            /\ ret' = None
      [] peek = RightParen /\ bracket_count = 0 ->
            /\ Return(Err(SyntaxError("Too many ')'.")))
            /\ UNCHANGED current_token_index
      [] OTHER ->
            /\ Return(Ok(expression))
            /\ UNCHANGED current_token_index

\* the loop of term(), with expression the left operand built so far
TermLoop(expression) ==
    CASE peek = Plus ->
            /\ consume
            /\ stack' = CallFrom("add", expression, "factor")
            /\ ret' = None
      [] peek = Minus ->
            /\ consume
            /\ stack' = CallFrom("subtract", expression, "factor")
            /\ ret' = None
      [] peek = RightParen /\ bracket_count = 0 ->
            /\ Return(Err(SyntaxError("Too many ')'.")))
            /\ UNCHANGED current_token_index
      [] peek = LeftParen /\ bracket_count = 0 ->
            /\ Return(Err(SyntaxError("Unexpected '('.")))
            /\ UNCHANGED current_token_index
      [] OTHER ->
            /\ Return(Ok(expression))
            /\ UNCHANGED current_token_index

Term ==
    /\ phase = "parsing" /\ stack # <<>> /\ Top.fn = "term"
    /\ IF Top.pc = "entry"
       THEN /\ stack' = CallFrom("left", None, "factor")
            /\ ret' = None
            /\ UNCHANGED current_token_index
       ELSE IF IsErr(ret)
       THEN Return(ret) /\ UNCHANGED current_token_index
       ELSE TermLoop(CASE Top.pc = "left" -> ret[2]
                       [] Top.pc = "add" -> Add(Top.expression, ret[2])
                       [] Top.pc = "subtract" -> Subtract(Top.expression, ret[2]))
    /\ UNCHANGED <<input, phase, tokens, bracket_count, new_result, parse_result,
                   ast, value, text, original, console,
                   run_pc>>

\* Mutant of FactorLoop: the right operand of * and / is parsed by term().
FactorLoopRightTerm(expression) ==
    CASE peek = Star ->
            /\ consume
            /\ stack' = CallFrom("multiply", expression, "term")
            /\ ret' = None
      [] peek = Slash ->
            /\ consume
            /\ stack' = CallFrom("divide", expression, "term")
            /\ ret' = None
      [] peek = RightParen /\ bracket_count = 0 ->
            /\ Return(Err(SyntaxError("Too many ')'.")))
            /\ UNCHANGED current_token_index
      [] OTHER ->
            /\ Return(Ok(expression))
            /\ UNCHANGED current_token_index

\* the loop of factor()
FactorLoop(expression) ==
    CASE peek = Star ->
            /\ consume
            /\ stack' = CallFrom("multiply", expression, "unary")
            /\ ret' = None
      [] peek = Slash ->
            /\ consume
            /\ stack' = CallFrom("divide", expression, "unary")
            /\ ret' = None
      [] peek = RightParen /\ bracket_count = 0 ->
            /\ Return(Err(SyntaxError("Too many ')'.")))
            /\ UNCHANGED current_token_index
      [] OTHER ->
            /\ Return(Ok(expression))
            /\ UNCHANGED current_token_index

Factor ==
    /\ phase = "parsing" /\ stack # <<>> /\ Top.fn = "factor"
    /\ IF Top.pc = "entry"
       THEN /\ stack' = CallFrom("left", None, "unary")
            /\ ret' = None
            /\ UNCHANGED current_token_index
       ELSE IF IsErr(ret)
       THEN Return(ret) /\ UNCHANGED current_token_index
       ELSE FactorLoop(CASE Top.pc = "left" -> ret[2]
                         [] Top.pc = "multiply" -> Multiply(Top.expression, ret[2])
                         [] Top.pc = "divide" -> Divide(Top.expression, ret[2]))
    /\ UNCHANGED <<input, phase, tokens, bracket_count, new_result, parse_result,
                   ast, value, text, original, console,
                   run_pc>>

\* Mutant of Unary: the operand of '-' is parsed by primary(), so a second '-'
\* is no operand.
UnaryOperandPrimary ==
    /\ phase = "parsing" /\ stack # <<>> /\ Top.fn = "unary"
    /\ IF Top.pc = "entry"
       THEN IF peek = Minus
            THEN /\ consume
                 /\ stack' = CallFrom("negate", None, "primary")
                 /\ ret' = None
            ELSE /\ stack' = Append(Caller, Frame("primary"))
                 /\ ret' = None
                 /\ UNCHANGED current_token_index
       ELSE IF IsErr(ret)
       THEN Return(ret) /\ UNCHANGED current_token_index
       ELSE Return(Ok(Negate(ret[2]))) /\ UNCHANGED current_token_index
    /\ UNCHANGED <<input, phase, tokens, bracket_count, new_result, parse_result,
                   ast, value, text, original, console,
                   run_pc>>

Unary ==
    /\ phase = "parsing" /\ stack # <<>> /\ Top.fn = "unary"
    /\ IF Top.pc = "entry"
       THEN IF peek = Minus
            THEN /\ consume
                 /\ stack' = CallFrom("negate", None, "unary")
                 /\ ret' = None
            ELSE \* self.primary() in tail position: its result is unary's
                 /\ stack' = Append(Caller, Frame("primary"))
                 /\ ret' = None
                 /\ UNCHANGED current_token_index
       ELSE IF IsErr(ret)
       THEN Return(ret) /\ UNCHANGED current_token_index
       ELSE Return(Ok(Negate(ret[2]))) /\ UNCHANGED current_token_index
    /\ UNCHANGED <<input, phase, tokens, bracket_count, new_result, parse_result,
                   ast, value, text, original, console,
                   run_pc>>

\* Mutant of ConsumeRightParen: the nesting counter is not decremented.
ConsumeRightParenNoDecrement(expression) ==
    /\ next
    /\ UNCHANGED bracket_count
    /\ IF peek = RightParen
       THEN Return(Ok(Grouping(expression)))
       ELSE Return(Err(SyntaxError("Expect ')' after expression.")))

\* Mutant of ConsumeRightParen: the token is consumed without being looked at.
ConsumeRightParenAnyToken(expression) ==
    /\ consume
    /\ bracket_count' = bracket_count - 1
    /\ Return(Ok(Grouping(expression)))

\* consume_right_paren() and what primary does with its result
ConsumeRightParen(expression) ==
    /\ next
    /\ IF peek = RightParen
       THEN /\ bracket_count' = bracket_count - 1
            /\ Return(Ok(Grouping(expression)))
       ELSE /\ Return(Err(SyntaxError("Expect ')' after expression.")))
            /\ UNCHANGED bracket_count

\* Mutant of Primary: a '(' is entered without counting it.
PrimaryNoIncrement ==
    /\ phase = "parsing" /\ stack # <<>> /\ Top.fn = "primary"
    /\ IF Top.pc = "entry"
       THEN /\ next
            /\ CASE peek # None /\ peek[1] = "Number" ->
                       /\ Return(Ok(peek))
                       /\ UNCHANGED bracket_count
                 [] peek = LeftParen ->
                       /\ UNCHANGED bracket_count
                       /\ stack' = CallFrom("group", None, ExpressionFrame)
                       /\ ret' = None
                 [] OTHER ->
                       /\ Return(Err(SyntaxError("Expected number or '('.")))
                       /\ UNCHANGED bracket_count
       ELSE IF IsErr(ret)
       THEN Return(ret) /\ UNCHANGED <<current_token_index, bracket_count>>
       ELSE ConsumeRightParen(ret[2])
    /\ UNCHANGED <<input, phase, tokens, new_result, parse_result, ast, value,
                   text, original, console, run_pc>>

\* Mutant of Primary: a ')' where an operand is required is reported as one
\* ')' too many.
PrimaryReportsRightParen ==
    /\ phase = "parsing" /\ stack # <<>> /\ Top.fn = "primary"
    /\ IF Top.pc = "entry"
       THEN /\ next
            /\ CASE peek # None /\ peek[1] = "Number" ->
                       /\ Return(Ok(peek))
                       /\ UNCHANGED bracket_count
                 [] peek = LeftParen ->
                       /\ bracket_count' = bracket_count + 1
                       /\ stack' = CallFrom("group", None, ExpressionFrame)
                       /\ ret' = None
                 [] peek = RightParen ->
                       /\ Return(Err(SyntaxError("Too many ')'.")))
                       /\ UNCHANGED bracket_count
                 [] OTHER ->
                       /\ Return(Err(SyntaxError("Expected number or '('.")))
                       /\ UNCHANGED bracket_count
       ELSE IF IsErr(ret)
       THEN Return(ret) /\ UNCHANGED <<current_token_index, bracket_count>>
       ELSE ConsumeRightParen(ret[2])
    /\ UNCHANGED <<input, phase, tokens, new_result, parse_result, ast, value,
                   text, original, console,
                   run_pc>>

Primary ==
    /\ phase = "parsing" /\ stack # <<>> /\ Top.fn = "primary"
    /\ IF Top.pc = "entry"
       THEN /\ next
            /\ CASE peek # None /\ peek[1] = "Number" ->
                       /\ Return(Ok(peek))
                       /\ UNCHANGED bracket_count
                 [] peek = LeftParen ->
                       /\ bracket_count' = bracket_count + 1
                       /\ stack' = CallFrom("group", None, ExpressionFrame)
                       /\ ret' = None
                 [] OTHER ->
                       /\ Return(Err(SyntaxError("Expected number or '('.")))
                       /\ UNCHANGED bracket_count
       ELSE IF IsErr(ret)
       THEN Return(ret) /\ UNCHANGED <<current_token_index, bracket_count>>
       ELSE ConsumeRightParen(ret[2])
    /\ UNCHANGED <<input, phase, tokens, new_result, parse_result, ast, value,
                   text, original, console,
                   run_pc>>

\* Parser::parse: calls expression() and returns what it returns
Parse ==
    /\ IF phase = "parser"
       THEN /\ phase' = "parsing"
            /\ stack' = <<Frame(ExpressionFrame)>>
            /\ UNCHANGED <<ret, parse_result, ast>>
       ELSE /\ phase = "parsing" /\ stack = <<>>
            /\ phase' = "parsed"
            /\ parse_result' = ret
            /\ ast' = IF IsOk(ret) THEN ret[2] ELSE None
            /\ UNCHANGED <<stack, ret>>
    /\ UNCHANGED <<input, tokens, current_token_index, bracket_count, new_result,
                   value, text, original, console,
                   run_pc>>

\* Parser::new(input): the parser with every token, cursor 0 and depth 0, or
\* the tokenizing error and no parser
New ==
    /\ phase = "start"
    /\ new_result' = ParserNew(input)
    /\ IF IsOk(new_result')
       THEN /\ phase' = "parser"
            /\ tokens' = new_result'[2]
       ELSE /\ phase' = "failed"
            /\ UNCHANGED tokens
    /\ current_token_index' = 0
    /\ bracket_count' = 0
    /\ UNCHANGED <<input, stack, ret, parse_result, ast, value, text, original, console,
                   run_pc>>

(***************************************************************************)
(* Evaluator (parsemath/visitors.rs): Result<f64, EvaluatorError>.  The ?  *)
(* operator returns the operand's error at once, the left operand first.   *)
(***************************************************************************)
EvaluatorError(message) == <<"EvaluatorError", message>>

RECURSIVE Evaluator_visit_expression(_)

Evaluator_visit_number(v) == Ok(v)

Evaluator_visit_add(left, right) ==
    LET l == Evaluator_visit_expression(left)
    IN  IF IsErr(l) THEN l
        ELSE LET r == Evaluator_visit_expression(right)
             IN  IF IsErr(r) THEN r ELSE Ok(F64Add(l[2], r[2]))

Evaluator_visit_subtract(left, right) ==
    LET l == Evaluator_visit_expression(left)
    IN  IF IsErr(l) THEN l
        ELSE LET r == Evaluator_visit_expression(right)
             IN  IF IsErr(r) THEN r ELSE Ok(F64Sub(l[2], r[2]))

Evaluator_visit_multiply(left, right) ==
    LET l == Evaluator_visit_expression(left)
    IN  IF IsErr(l) THEN l
        ELSE LET r == Evaluator_visit_expression(right)
             IN  IF IsErr(r) THEN r ELSE Ok(F64Mul(l[2], r[2]))

\* Mutant of Evaluator_visit_divide: a divisor of magnitude below 1 counts as
\* zero (a tolerance instead of the exact comparison).
Evaluator_visit_divide_tolerance(left, right) ==
    LET right_value == Evaluator_visit_expression(right)
    IN  IF IsErr(right_value) THEN right_value
        ELSE IF IsFinite(right_value[2])
                /\ NatBitLen(right_value[2][3]) + right_value[2][4] <= 0
        THEN Err(EvaluatorError("Division by zero"))
        ELSE LET l == Evaluator_visit_expression(left)
             IN  IF IsErr(l) THEN l
                 ELSE LET r == Evaluator_visit_expression(right)
                      IN  IF IsErr(r) THEN r ELSE Ok(F64Div(l[2], r[2]))

\* the right operand is evaluated first and checked, then left and right again
Evaluator_visit_divide(left, right) ==
    LET right_value == Evaluator_visit_expression(right)
    IN  IF IsErr(right_value) THEN right_value
        ELSE IF F64Eq(right_value[2], F64OfInt(0))
        THEN Err(EvaluatorError("Division by zero"))
        ELSE LET l == Evaluator_visit_expression(left)
             IN  IF IsErr(l) THEN l
                 ELSE LET r == Evaluator_visit_expression(right)
                      IN  IF IsErr(r) THEN r ELSE Ok(F64Div(l[2], r[2]))

Evaluator_visit_negate(expr) ==
    LET e == Evaluator_visit_expression(expr)
    IN  IF IsErr(e) THEN e ELSE Ok(F64Neg(e[2]))

Evaluator_visit_grouping(expr) == Evaluator_visit_expression(expr)

\* ExpressionVisitor::visit_expression, for the Evaluator
Evaluator_visit_expression(expr) ==
    CASE expr[1] = "Number" -> Evaluator_visit_number(expr[2])
      [] expr[1] = "Add" -> Evaluator_visit_add(expr[2], expr[3])
      [] expr[1] = "Subtract" -> Evaluator_visit_subtract(expr[2], expr[3])
      [] expr[1] = "Multiply" -> Evaluator_visit_multiply(expr[2], expr[3])
      [] expr[1] = "Divide" -> Evaluator_visit_divide(expr[2], expr[3])
      [] expr[1] = "Negate" -> Evaluator_visit_negate(expr[2])
      [] expr[1] = "Grouping" -> Evaluator_visit_grouping(expr[2])

(***************************************************************************)
(* PrettyPrinterVisitor (parsemath/visitors.rs): Result<String, ()>, never *)
(* an error, so the String itself stands for Ok(String).                   *)
(***************************************************************************)
\* mant / scale is brought below 1 (up to it, when the end of the interval
\* is not in it): high = mant + plus fits under scale
Fits(high, scale, inclusive) ==
    IF inclusive THEN NatLess(high, scale) ELSE ~NatLess(scale, high)

\* the number of decimal digits of a number of n binary digits, or one or
\* two more
DecimalDigits(n) == IF n < 0 THEN 0 ELSE (n * 31) \div 100 + 2

\* flt2dec::decode of a finite v # 0: the significand f of 53 digits and its
\* unit 2^e give the interval of the numbers that round to v, half a unit to
\* either side and a quarter below when f is a power of two, the ends
\* included when f is even; mant, minus and plus are counted in 2^exp
Decoded(P, k, e) ==
    IF NatBitLen(P) - 1 + k >= 2 - OverflowExponent /\ P = NatOne
    THEN [mant |-> NatShiftLeft(P, k - e + 2), minus |-> NatOne,
          plus |-> NatOfInt(2), exp |-> e - 2,
          inclusive |-> ~NatIsOdd(NatShiftLeft(P, k - e))]
    ELSE [mant |-> NatShiftLeft(P, k - e + 1), minus |-> NatOne,
          plus |-> NatOne, exp |-> e - 1,
          inclusive |-> \/ NatBitLen(P) - 1 + k < 2 - OverflowExponent
                        \/ ~NatIsOdd(NatShiftLeft(P, k - e))]

decode(v) == Decoded(v[3], v[4], UnitExponent(NatBitLen(v[3]) - 1 + v[4]))

\* mant, minus and plus over scale, and the decimal exponent <<k>>: the
\* value is mant / scale * 10^k
Fraction(d) ==
    IF d.exp < 0
    THEN <<d.mant, d.minus, d.plus, NatShiftLeft(NatOne, 0 - d.exp), <<0>>>>
    ELSE <<NatShiftLeft(d.mant, d.exp), NatShiftLeft(d.minus, d.exp),
           NatShiftLeft(d.plus, d.exp), NatOne, <<0>>>>

\* the fraction with the least k for which (mant + plus) / scale is under 1
Scaled(start, inclusive) ==
    LET Raise[state \in LoopStates, i \in Nat] ==
            IF Fits(NatAdd(state[1], state[3]), state[4], inclusive) THEN state
            ELSE <<state[1], state[2], state[3], NatMulSmall(state[4], 10),
                   <<state[5][1] + 1>>>>
        Lower[state \in LoopStates, i \in Nat] ==
            IF Fits(NatMulSmall(NatAdd(state[1], state[3]), 10), state[4],
                    inclusive)
            THEN <<NatMulSmall(state[1], 10), NatMulSmall(state[2], 10),
                   NatMulSmall(state[3], 10), state[4], <<state[5][1] - 1>>>>
            ELSE state
    IN  IF Fits(NatAdd(start[1], start[3]), start[4], inclusive)
        THEN Iterate(Lower,
                     DecimalDigits(NatBitLen(start[4])
                                   - NatBitLen(NatAdd(start[1], start[3]))),
                     start)
        ELSE Iterate(Raise,
                     DecimalDigits(NatBitLen(NatAdd(start[1], start[3]))
                                   - NatBitLen(start[4])),
                     start)

\* the digit mant \div scale, for mant < 10 * scale
DigitOf(mant, scale) ==
    Cardinality({d \in 1..9 : ~NatLess(mant, NatMulSmall(scale, d))})

\* digits with 1 added in the last place; all nines become 1 and zeros, one
\* digit longer
RoundUpDigits(digits) ==
    IF \A i \in DOMAIN digits : digits[i] = 9
    THEN <<1>> \o [i \in DOMAIN digits |-> 0]
    ELSE [i \in DOMAIN digits |->
            IF \E j \in (i + 1)..Len(digits) : digits[j] < 9 THEN digits[i]
            ELSE IF digits[i] < 9 THEN digits[i] + 1 ELSE 0]

\* flt2dec::MAX_SIG_DIGITS: no f64 needs more digits to be told apart
MaxSigDigits == 17

\* the digits of mant / scale one by one; the state is mant, minus, plus,
\* the digits, and <<>> until the last digit is out, then what the rounding
\* adds to k.  A digit d leaves rest; the digits are complete when rest is
\* within minus of them (down) or within plus of the next digit up (up);
\* up wins when it alone holds or rest is half the scale or more, and then
\* all nines carry into k.
GenerateDigits(s, inclusive) ==
    LET Emitted(rest, minus, plus, digits, down, up) ==
            IF ~(down \/ up) THEN <<rest, minus, plus, digits, <<>>>>
            ELSE IF up /\ (~down \/ ~NatLess(NatMulSmall(rest, 2), s[4]))
            THEN <<rest, minus, plus, RoundUpDigits(digits),
                   <<IF \A j \in DOMAIN digits : digits[j] = 9 THEN 1 ELSE 0>>>>
            ELSE <<rest, minus, plus, digits, <<0>>>>
        Remaining(rest, minus, plus, digits) ==
            Emitted(rest, minus, plus, digits,
                    IF inclusive THEN ~NatLess(minus, rest)
                    ELSE NatLess(rest, minus),
                    IF inclusive THEN ~NatLess(NatAdd(rest, plus), s[4])
                    ELSE NatLess(s[4], NatAdd(rest, plus)))
        WithDigit(mant, minus, plus, digits, d) ==
            Remaining(NatSub(mant, NatMulSmall(s[4], d)), minus, plus,
                      Append(digits, d))
        OneDigit(mant, minus, plus, digits) ==
            WithDigit(mant, minus, plus, digits, DigitOf(mant, s[4]))
        NextDigit[state \in LoopStates, i \in Nat] ==
            IF state[5] # <<>> THEN state
            ELSE OneDigit(NatMulSmall(state[1], 10), NatMulSmall(state[2], 10),
                          NatMulSmall(state[3], 10), state[4])
    IN  Iterate(NextDigit, MaxSigDigits, <<s[1], s[2], s[3], <<>>, <<>>>>)

\* flt2dec's shortest digits of a finite v # 0: the fewest decimal digits
\* d1 d2 ... dn and the exponent k with 0.d1d2...dn * 10^k nearer to |v|
\* than to any other f64
ShortestDigits(v) ==
    LET Generated(g, k) == [digits |-> g[4], k |-> k + g[5][1]]
        OfScaled(s, inclusive) == Generated(GenerateDigits(s, inclusive), s[5][1])
        OfDecoded(d) == OfScaled(Scaled(Fraction(d), d.inclusive), d.inclusive)
    IN  OfDecoded(decode(v))

DigitChar(k) ==
    CASE k = 0 -> "0" [] k = 1 -> "1" [] k = 2 -> "2" [] k = 3 -> "3"
      [] k = 4 -> "4" [] k = 5 -> "5" [] k = 6 -> "6" [] k = 7 -> "7"
      [] k = 8 -> "8" [] k = 9 -> "9"

DigitChars(digits) == [i \in DOMAIN digits |-> DigitChar(digits[i])]

Zeros(n) == [i \in 1..n |-> "0"]

\* the digits 0.d1...dn * 10^k written without an exponent: zeros fill up to
\* the point, and there is no point without digits after it
DigitsToDecimal(digits, k) ==
    IF k <= 0 THEN <<"0", ".">> \o Zeros(0 - k) \o DigitChars(digits)
    ELSE IF k < Len(digits)
    THEN DigitChars(SubSeq(digits, 1, k)) \o <<".">>
            \o DigitChars(SubSeq(digits, k + 1, Len(digits)))
    ELSE DigitChars(digits) \o Zeros(k - Len(digits))

\* f64::to_string (Display): the shortest decimal text that reads back as the
\* same value, without an exponent; a zero keeps its sign
F64ToString(v) ==
    IF IsNaN(v) THEN <<"N", "a", "N">>
    ELSE (IF v[2] = 1 THEN <<"-">> ELSE <<>>)
         \o (IF IsInfinite(v) THEN <<"i", "n", "f">>
             ELSE IF IsZero(v) THEN <<"0">>
             ELSE LET Written(s) == DigitsToDecimal(s.digits, s.k)
                  IN  Written(ShortestDigits(v)))

RECURSIVE PrettyPrinter_visit_expression(_)

PrettyPrinter_visit_number(v) == F64ToString(v)

PrettyPrinter_visit_add(left, right) ==
    PrettyPrinter_visit_expression(left) \o <<" ", "+", " ">>
        \o PrettyPrinter_visit_expression(right)

PrettyPrinter_visit_subtract(left, right) ==
    PrettyPrinter_visit_expression(left) \o <<" ", "-", " ">>
        \o PrettyPrinter_visit_expression(right)

PrettyPrinter_visit_multiply(left, right) ==
    PrettyPrinter_visit_expression(left) \o <<" ", "*", " ">>
        \o PrettyPrinter_visit_expression(right)

PrettyPrinter_visit_divide(left, right) ==
    PrettyPrinter_visit_expression(left) \o <<" ", "/", " ">>
        \o PrettyPrinter_visit_expression(right)

PrettyPrinter_visit_negate(expr) == <<"-">> \o PrettyPrinter_visit_expression(expr)

\* Mutant of PrettyPrinter_visit_grouping: the brackets are not written.
PrettyPrinter_visit_grouping_collapsed(expr) == PrettyPrinter_visit_expression(expr)

PrettyPrinter_visit_grouping(expr) ==
    <<"(">> \o PrettyPrinter_visit_expression(expr) \o <<")">>

\* ExpressionVisitor::visit_expression, for the PrettyPrinterVisitor
PrettyPrinter_visit_expression(expr) ==
    CASE expr[1] = "Number" -> PrettyPrinter_visit_number(expr[2])
      [] expr[1] = "Add" -> PrettyPrinter_visit_add(expr[2], expr[3])
      [] expr[1] = "Subtract" -> PrettyPrinter_visit_subtract(expr[2], expr[3])
      [] expr[1] = "Multiply" -> PrettyPrinter_visit_multiply(expr[2], expr[3])
      [] expr[1] = "Divide" -> PrettyPrinter_visit_divide(expr[2], expr[3])
      [] expr[1] = "Negate" -> PrettyPrinter_visit_negate(expr[2])
      [] expr[1] = "Grouping" -> PrettyPrinter_visit_grouping(expr[2])

(***************************************************************************)
(* The callers of the visitors: Calculator::run evaluates the tree parse() *)
(* returned, the tests render it.                                          *)
(***************************************************************************)
Evaluate ==
    /\ phase = "parsed" /\ ast # None
    /\ value' = Evaluator_visit_expression(ast)
    /\ phase' = "evaluated"
    /\ UNCHANGED <<input, tokens, current_token_index, bracket_count, stack, ret,
                   new_result, parse_result, ast, text, original, console,
                   run_pc>>

PrettyPrint ==
    /\ phase = "parsed" /\ ast # None
    /\ text' = PrettyPrinter_visit_expression(ast)
    /\ phase' = "printed"
    /\ UNCHANGED <<input, tokens, current_token_index, bracket_count, stack, ret,
                   new_result, parse_result, ast, value, original, console,
                   run_pc>>

FirstPass(in, ts, tree) == <<"FirstPass", in, ts, tree>>

\* the round trip: the rendered text is the input of a second pass, and the
\* first pass's input, tokens and tree are kept to compare with
Reparse ==
    /\ phase = "printed" /\ original = None
    /\ original' = FirstPass(input, tokens, ast)
    /\ input' = text
    /\ phase' = "start"
    /\ tokens' = <<>>
    /\ current_token_index' = 0
    /\ bracket_count' = 0
    /\ stack' = <<>>
    /\ ret' = None
    /\ new_result' = None
    /\ parse_result' = None
    /\ ast' = None
    /\ text' = None
    /\ UNCHANGED <<value, console, run_pc>>

(***************************************************************************)
(* Calculator::run (calcmath/calc.rs), on a Console.  A formatted text is  *)
(* the sequence of its fragments read one after another; a text of         *)
(* one-character fragments is a string as above.  console records every    *)
(* call run makes on its Console, in order, with the text written or the   *)
(* line read.                                                              *)
(***************************************************************************)
\* A character is the string of itself; a character that a string of the
\* model cannot hold is the string of its code point, "U+0131".  The
\* characters of a line are the tab, U+0020..U+007E, U+00A1..U+00FF without
\* the soft hyphen U+00AD, dotless i (U+0131) and long s (U+017F);
\* to_uppercase has no value here on a text with any other character.
\* The lowercase letters among them whose uppercase is one character of the
\* same range, and below them their uppercases, in the same order.
LowercaseLetters ==
    <<"a", "b", "c", "d", "e", "f", "g", "h", "i", "j", "k", "l", "m",
      "n", "o", "p", "q", "r", "s", "t", "u", "v", "w", "x", "y", "z",
      "à", "á", "â", "ã", "ä", "å", "æ", "ç", "è", "é", "ê", "ë", "ì",
      "í", "î", "ï", "ð", "ñ", "ò", "ó", "ô", "õ", "ö", "ø", "ù", "ú",
      "û", "ü", "ý", "þ">>

UppercaseLetters ==
    <<"A", "B", "C", "D", "E", "F", "G", "H", "I", "J", "K", "L", "M",
      "N", "O", "P", "Q", "R", "S", "T", "U", "V", "W", "X", "Y", "Z",
      "À", "Á", "Â", "Ã", "Ä", "Å", "Æ", "Ç", "È", "É", "Ê", "Ë", "Ì",
      "Í", "Î", "Ï", "Ð", "Ñ", "Ò", "Ó", "Ô", "Õ", "Ö", "Ø", "Ù", "Ú",
      "Û", "Ü", "Ý", "Þ">>

\* char::to_uppercase, the Unicode mapping, on the characters of a line: the
\* uppercase of a character is a text, of two characters for sharp s.  Sharp
\* s, micro sign and y with diaeresis have their uppercase outside the range
\* (U+039C, U+0178), dotless i has "I" and long s has "S".  An uppercase
\* letter and a character without an uppercase (digits, signs, the ordinal
\* indicators U+00AA and U+00BA) stay.  On any other character there is no
\* value.
char_to_uppercase(c) ==
    LET caseless ==
            {"\t", " ", "!", "\"", "#", "$", "%", "&", "'", "(", ")", "*",
             "+", ",", "-", ".", "/", "0", "1", "2", "3", "4", "5",
             "6", "7", "8", "9", ":", ";", "<", "=", ">", "?", "@",
             "[", "\\", "]", "^", "_", "U+0060", "{", "|", "}", "~",
             "¡", "¢", "£", "¤", "¥", "¦", "§", "¨", "©", "ª", "«",
             "¬", "®", "¯", "°", "±", "²", "³", "´", "¶", "·", "¸",
             "¹", "º", "»", "¼", "½", "¾", "¿", "×", "÷"}
    IN  CASE \E k \in DOMAIN LowercaseLetters : LowercaseLetters[k] = c ->
                <<UppercaseLetters[CHOOSE k \in DOMAIN LowercaseLetters :
                                       LowercaseLetters[k] = c]>>
          [] c = "ß" -> <<"S", "S">>
          [] c = "µ" -> <<"Μ">>
          [] c = "ÿ" -> <<"U+0178">>
          [] c = "U+0131" -> <<"I">>
          [] c = "U+017F" -> <<"S">>
          [] \E k \in DOMAIN UppercaseLetters : UppercaseLetters[k] = c -> <<c>>
          [] c \in caseless -> <<c>>

\* str::to_uppercase: the uppercases of the characters, one after another
RECURSIVE to_uppercase(_)
to_uppercase(s) ==
    IF s = <<>> THEN <<>>
    ELSE char_to_uppercase(Head(s)) \o to_uppercase(Tail(s))

\* Display of TokenizingError (the #[error] attributes)
TokenizingErrorDisplay(e) ==
    IF e[1] = "InvalidCharacter" THEN <<"Unexpected token '", e[2], "'">>
    ELSE <<"Invalid number format">>

\* Display of ParserError (the #[error] attributes)
ParserErrorDisplay(e) ==
    <<"Syntax error: ">>
        \o (IF e[1] = "UnexpectedToken" THEN TokenizingErrorDisplay(e[2])
            ELSE <<e[2]>>)

\* the derived Debug of EvaluatorError: the struct's name, its field and the
\* message in quotes
EvaluatorErrorDebug(e) == <<"EvaluatorError { message: ", "\"", e[2], "\"", " }">>

ConsolePrintln(t) == <<"println", t>>
ConsolePrint(t) == <<"print", t>>
ConsoleReadline(line) == <<"readline", line>>

Banner == <<"### Calculator ver. 1.0 ###">>
Prompt == <<">>> ">>
EXIT == <<"E", "X", "I", "T">>

\* the lines the Console has handed to run so far
LinesRead == Cardinality({i \in DOMAIN console : console[i][1] = "readline"})

\* the lines a Console hands to run: the lines of the tests of calc.rs, a
\* division by zero, one line for each other kind of error, lines with
\* letters outside ASCII, and "exit" in several letter cases, misspelt, and
\* with a dotless i
RunLines ==
    { <<"1", " ", "+", " ", "2">>,
      <<"(", "1", " ", "+", " ", "2", ")", " ", "*", " ",
        "(", "1", "0", " ", "/", " ", "5", ")">>,
      <<"1", " ", "/", " ", "0">>,
      <<"2", "#">>,
      <<"1", ".", ".">>,
      <<"(", "1">>,
      <<"E", "x", "i", "t">>,
      <<"e", "x", "i", "t">>,
      <<"e", "x", "i">>,
      <<"1", "é">>,
      <<"ß">>,
      <<"e", "x", "U+0131", "t">> }

\* println("### Calculator ver. 1.0 ###")
RunBanner ==
    /\ run_pc = "banner"
    /\ console' = Append(console, ConsolePrintln(Banner))
    /\ run_pc' = "prompt"
    /\ UNCHANGED <<input, phase, tokens, current_token_index, bracket_count,
                   stack, ret, new_result, parse_result, ast, value, text,
                   original>>

\* the head of the loop: print(">>> ")
RunPrompt ==
    /\ run_pc = "prompt"
    /\ console' = Append(console, ConsolePrint(Prompt))
    /\ run_pc' = "readline"
    /\ UNCHANGED <<input, phase, tokens, current_token_index, bracket_count,
                   stack, ret, new_result, parse_result, ast, value, text,
                   original>>

\* readline().to_uppercase(), and the break on "EXIT"; any other line goes to
\* Parser::new with nothing left of the iteration before
RunReadline ==
    /\ run_pc = "readline"
    /\ LinesRead < MaxRunLines
    /\ \E line \in RunLines :
        /\ console' = Append(console, ConsoleReadline(line))
        /\ input' = to_uppercase(line)
    /\ IF input' = EXIT
       THEN run_pc' = "done" /\ phase' = "idle"
       ELSE run_pc' = "match" /\ phase' = "start"
    /\ tokens' = <<>>
    /\ current_token_index' = 0
    /\ bracket_count' = 0
    /\ stack' = <<>>
    /\ ret' = None
    /\ new_result' = None
    /\ parse_result' = None
    /\ ast' = None
    /\ value' = None
    /\ UNCHANGED <<text, original>>

\* RunPrintln, but an error ends the loop
RunPrintlnErrorEndsLoop ==
    /\ run_pc = "match"
    /\ \/ /\ phase = "evaluated" /\ IsOk(value)
          /\ console' = Append(console, ConsolePrintln(F64ToString(value[2])))
          /\ run_pc' = "prompt"
       \/ /\ phase = "evaluated" /\ IsErr(value)
          /\ console' = Append(console, ConsolePrintln(EvaluatorErrorDebug(value[2])))
          /\ run_pc' = "done"
       \/ /\ phase = "parsed" /\ IsErr(parse_result)
          /\ console' = Append(console, ConsolePrintln(ParserErrorDisplay(parse_result[2])))
          /\ run_pc' = "done"
       \/ /\ phase = "failed"
          /\ console' = Append(console, ConsolePrintln(ParserErrorDisplay(new_result[2])))
          /\ run_pc' = "done"
    /\ UNCHANGED <<input, phase, tokens, current_token_index, bracket_count,
                   stack, ret, new_result, parse_result, ast, value, text,
                   original>>

\* the arms of the match: one println of the value, of the evaluator's error
\* with {:?}, or of the parser's error with {}; then the loop starts over
RunPrintln ==
    /\ run_pc = "match"
    /\ \/ /\ phase = "evaluated" /\ IsOk(value)
          /\ console' = Append(console, ConsolePrintln(F64ToString(value[2])))
       \/ /\ phase = "evaluated" /\ IsErr(value)
          /\ console' = Append(console, ConsolePrintln(EvaluatorErrorDebug(value[2])))
       \/ /\ phase = "parsed" /\ IsErr(parse_result)
          /\ console' = Append(console, ConsolePrintln(ParserErrorDisplay(parse_result[2])))
       \/ /\ phase = "failed"
          /\ console' = Append(console, ConsolePrintln(ParserErrorDisplay(new_result[2])))
    /\ run_pc' = "prompt"
    /\ UNCHANGED <<input, phase, tokens, current_token_index, bracket_count,
                   stack, ret, new_result, parse_result, ast, value, text,
                   original>>

(***************************************************************************)
(* Inputs.                                                                 *)
(***************************************************************************)
\* every string over alphabet of at most n characters
Strings(alphabet, n) == UNION {[1..k -> alphabet] : k \in 0..n}

\* characters of every class the tokenizer tells apart: the space it skips,
\* the six one-character tokens, digits, the '.', and characters it rejects
Alphabet == {" ", "+", "-", "*", "/", "(", ")", "0", "1", ".", "#", "\t"}

\* the characters of the tokens alone
TokenAlphabet == {"+", "-", "*", "/", "(", ")", "1"}

Operators == {"+", "-", "*", "/"}

\* the chain 1 op 2 op 3 ... for a sequence of operators
RECURSIVE Chain(_)
Chain(ops) ==
    IF ops = <<>> THEN <<"1">>
    ELSE Chain(SubSeq(ops, 1, Len(ops) - 1))
            \o <<ops[Len(ops)], DigitChar(Len(ops) + 1)>>

Chains == {Chain(ops) : ops \in UNION {[1..k -> Operators] : k \in 1..MaxChainOps}}

Start(in) ==
    /\ input = in
    /\ phase = "start"
    /\ tokens = <<>>
    /\ current_token_index = 0
    /\ bracket_count = 0
    /\ stack = <<>>
    /\ ret = None
    /\ new_result = None
    /\ parse_result = None
    /\ ast = None
    /\ value = None
    /\ text = None
    /\ original = None
    /\ console = <<>>
    /\ run_pc = "off"

\* any short string of characters
Init == \E in \in Strings(Alphabet, MaxLen) : Start(in)

\* number literals of more than one character: a fraction; the same fraction
\* with more digits than tell two f64 apart; a '.' without digits after it;
\* and 10^309, which is above every finite f64
Literals ==
    { <<"0", ".", "1">>,
      <<"0", ".", "1">> \o Zeros(16) \o <<"5">>,
      <<"1", ".">>,
      <<"1">> \o Zeros(309) }

\* any string of token characters, the operator chains, and the literals,
\* alone and in brackets
InitTokens ==
    \E in \in Strings(TokenAlphabet, MaxTokens) \cup Chains \cup Literals
                \cup {<<"(">> \o x \o <<")">> : x \in Literals} :
        Start(in)

Next ==
    \/ New
    \/ Parse
    \/ Term
    \/ Factor
    \/ Unary
    \/ Primary
    \/ Evaluate
    \/ PrettyPrint
    \/ Reparse

Spec == Init /\ [][Next]_vars

SpecTokens == InitTokens /\ [][Next]_vars

(***************************************************************************)
(* The visitors on trees built by hand, as tests/integration_tests.rs      *)
(* builds them: any Expression, not only one parse() can return.           *)
(***************************************************************************)
Leaves == {Number(F64OfInt(0)), Number(F64OfInt(1)),
           Number(ParseF64(<<"0", ".", "1">>)[2])}

\* every Expression of exactly n nodes over Leaves
RECURSIVE TreesOfSize(_)
TreesOfSize(n) ==
    IF n = 1 THEN Leaves
    ELSE {Negate(e) : e \in TreesOfSize(n - 1)}
         \cup {Grouping(e) : e \in TreesOfSize(n - 1)}
         \cup UNION {
                {Add(l, r) : l \in TreesOfSize(k), r \in TreesOfSize(n - 1 - k)}
                \cup {Subtract(l, r) : l \in TreesOfSize(k), r \in TreesOfSize(n - 1 - k)}
                \cup {Multiply(l, r) : l \in TreesOfSize(k), r \in TreesOfSize(n - 1 - k)}
                \cup {Divide(l, r) : l \in TreesOfSize(k), r \in TreesOfSize(n - 1 - k)}
              : k \in 1..(n - 2)}

Trees == UNION {TreesOfSize(n) : n \in 1..MaxNodes}

InitTrees ==
    /\ ast \in Trees
    /\ phase = "parsed"
    /\ input = <<>>
    /\ tokens = <<>>
    /\ current_token_index = 0
    /\ bracket_count = 0
    /\ stack = <<>>
    /\ ret = None
    /\ new_result = None
    /\ parse_result = None
    /\ value = None
    /\ text = None
    /\ original = None
    /\ console = <<>>
    /\ run_pc = "off"

NextTrees == Evaluate \/ PrettyPrint

SpecTrees == InitTrees /\ [][NextTrees]_vars

\* Calculator::run from its first statement, on a Console that has any of
\* RunLines to hand over, MaxRunLines times at most
InitRun ==
    /\ input = <<>>
    /\ phase = "idle"
    /\ tokens = <<>>
    /\ current_token_index = 0
    /\ bracket_count = 0
    /\ stack = <<>>
    /\ ret = None
    /\ new_result = None
    /\ parse_result = None
    /\ ast = None
    /\ value = None
    /\ text = None
    /\ original = None
    /\ console = <<>>
    /\ run_pc = "banner"

NextRun ==
    \/ RunBanner \/ RunPrompt \/ RunReadline
    \/ New \/ Parse \/ Term \/ Factor \/ Unary \/ Primary \/ Evaluate
    \/ RunPrintln

SpecRun == InitRun /\ [][NextRun]_vars

(***************************************************************************)
(* Vocabulary of the properties.                                           *)
(***************************************************************************)
\* every item the tokenizer yields on expr when it is driven to the end of the
\* input, errors included
RECURSIVE Items(_)
Items(expr) ==
    LET n == TokenizerNext(expr)
    IN  IF ~n.some THEN <<>> ELSE <<n.item>> \o Items(n.expr)

ErrorPositions(items) == {i \in 1..Len(items) : IsErr(items[i])}

Min(S) == CHOOSE x \in S : \A y \in S : x <= y

\* the nodes of a tree: the tree and every tree below it
RECURSIVE Nodes(_)
Nodes(e) ==
    {e} \cup (CASE e[1] = "Number" -> {}
                [] e[1] \in {"Negate", "Grouping"} -> Nodes(e[2])
                [] OTHER -> Nodes(e[2]) \cup Nodes(e[3]))

Additive == {"Add", "Subtract"}
Multiplicative == {"Multiply", "Divide"}
IsNumber(t) == t[1] = "Number"

\* the binary node an operator token builds
Binary(op, l, r) ==
    CASE op = Plus -> Add(l, r)
      [] op = Minus -> Subtract(l, r)
      [] op = Star -> Multiply(l, r)
      [] op = Slash -> Divide(l, r)

RECURSIVE Negations(_, _)
Negations(n, e) == IF n = 0 THEN e ELSE Negate(Negations(n - 1, e))

\* parse() has returned on the first pass over an input
Parsed == phase = "parsed" /\ original = None

\* C1: Parser::new fails exactly when some item of the input's token stream is
\* an error; it then returns UnexpectedToken of the leftmost error and there
\* is no parser, so parse() never runs; otherwise the parser holds every token
\* in order, and cursor and nesting counter are 0 until parse() is called.
C1_NewFailsOnFirstError ==
    phase # "start" /\ original = None =>
        LET items == Items(input)
            errors == ErrorPositions(items)
        IN  IF errors # {}
            THEN /\ new_result = Err(UnexpectedToken(items[Min(errors)][2]))
                 /\ phase = "failed"
                 /\ tokens = <<>> /\ stack = <<>> /\ parse_result = None
            ELSE /\ IsOk(new_result)
                 /\ phase # "failed"
                 /\ tokens = [i \in 1..Len(items) |-> items[i][2]]
                 /\ (phase = "parser" =>
                        current_token_index = 0 /\ bracket_count = 0)

\* new failed on an input with a token before two different errors
C1_Witness ==
    /\ phase = "failed"
    /\ LET items == Items(input)
       IN  /\ Len(items) = 3
           /\ IsOk(items[1]) /\ IsErr(items[2]) /\ IsErr(items[3])
           /\ items[2] # items[3]
           /\ new_result = Err(UnexpectedToken(items[2][2]))

\* C2: operators of one precedence level associate to the left: a op1 b op2 c
\* parses to op2(op1(a, b), c), and in every tree parse() returns no
\* Add/Subtract has an Add/Subtract as its right operand and no
\* Multiply/Divide has a Multiply/Divide as its right operand.
C2_LeftAssociative ==
    Parsed =>
        /\ (/\ Len(tokens) = 5
            /\ IsNumber(tokens[1]) /\ IsNumber(tokens[3]) /\ IsNumber(tokens[5])
            /\ \/ {tokens[2], tokens[4]} \subseteq {Plus, Minus}
               \/ {tokens[2], tokens[4]} \subseteq {Star, Slash}
            => parse_result =
                 Ok(Binary(tokens[4], Binary(tokens[2], tokens[1], tokens[3]),
                           tokens[5])))
        /\ (IsOk(parse_result) =>
              \A e \in Nodes(ast) :
                 /\ e[1] \in Additive => e[3][1] \notin Additive
                 /\ e[1] \in Multiplicative => e[3][1] \notin Multiplicative)

\* 1 - 2 / ... : two different operators of one level, parsed
C2_Witness ==
    /\ Parsed
    /\ Len(tokens) = 5
    /\ tokens[2] = Minus /\ tokens[4] = Plus
    /\ ast = Add(Subtract(tokens[1], tokens[3]), tokens[5])

\* C3: * and / bind tighter than + and -: in every tree parse() returns no
\* Add or Subtract is a direct operand of a Multiply, Divide or Negate, and
\* a m1 b p c m2 d (m1, m2 in * /, p in + -) parses to p(m1(a, b), m2(c, d)).
C3_Precedence ==
    Parsed =>
        /\ (IsOk(parse_result) =>
              \A e \in Nodes(ast) :
                 /\ e[1] \in Multiplicative =>
                       e[2][1] \notin Additive /\ e[3][1] \notin Additive
                 /\ e[1] = "Negate" => e[2][1] \notin Additive)
        /\ (/\ Len(tokens) = 7
            /\ \A i \in {1, 3, 5, 7} : IsNumber(tokens[i])
            /\ {tokens[2], tokens[6]} \subseteq {Star, Slash}
            /\ tokens[4] \in {Plus, Minus}
            => parse_result =
                 Ok(Binary(tokens[4], Binary(tokens[2], tokens[1], tokens[3]),
                           Binary(tokens[6], tokens[5], tokens[7]))))

\* 1 * 2 + 3 / 4 parsed
C3_Witness ==
    /\ Parsed
    /\ Len(tokens) = 7
    /\ ast = Add(Multiply(tokens[1], tokens[3]), Divide(tokens[5], tokens[7]))
    /\ \A i \in {1, 3, 5, 7} : IsNumber(tokens[i])

\* the number of '-' tokens at the front of ts
RECURSIVE LeadingMinus(_)
LeadingMinus(ts) ==
    IF ts # <<>> /\ Head(ts) = Minus THEN 1 + LeadingMinus(Tail(ts)) ELSE 0

\* v with its sign flipped n times
RECURSIVE Flipped(_, _)
Flipped(n, v) == IF n = 0 THEN v ELSE Flipped(n - 1, [v EXCEPT ![2] = 1 - v[2]])

\* the tokens a tree is written with, from left to right: a '-' before the
\* operand of a Negate, the brackets around the operand of a Grouping
RECURSIVE TokensOf(_)
TokensOf(e) ==
    CASE e[1] = "Number" -> <<e>>
      [] e[1] = "Add" -> TokensOf(e[2]) \o <<Plus>> \o TokensOf(e[3])
      [] e[1] = "Subtract" -> TokensOf(e[2]) \o <<Minus>> \o TokensOf(e[3])
      [] e[1] = "Multiply" -> TokensOf(e[2]) \o <<Star>> \o TokensOf(e[3])
      [] e[1] = "Divide" -> TokensOf(e[2]) \o <<Slash>> \o TokensOf(e[3])
      [] e[1] = "Negate" -> <<Minus>> \o TokensOf(e[2])
      [] e[1] = "Grouping" -> <<LeftParen>> \o TokensOf(e[2]) \o <<RightParen>>

\* position i of ts is the place of an operand: the start, or after an
\* operator, a '-' of either kind, or a '('; a '-' there is a negation
OperandPosition(ts, i) ==
    i = 1 \/ ts[i - 1] \in {Plus, Minus, Star, Slash, LeftParen}

\* the last position of the primary that starts at position j of ts: j for a
\* number, the position of the ')' that closes it for a '('
PrimaryEnd(ts, j) ==
    IF IsNumber(ts[j]) THEN j
    ELSE Min({k \in (j + 1)..Len(ts) :
                Cardinality({m \in j..k : ts[m] = LeftParen})
                    = Cardinality({m \in j..k : ts[m] = RightParen})})

\* the value of the n-fold Negate of operand: the operand's value with its
\* sign flipped n times, or the operand's error
NegatedValue(n, operand) ==
    LET v == Evaluator_visit_expression(operand)
    IN  IF IsOk(v) THEN Ok(Flipped(n, v[2])) ELSE v

\* C4: n '-' tokens before a primary, a number or an expression in brackets,
\* wherever an operand stands (at the start, after an operator, after a '('),
\* parse to n nested Negate around the node of that primary and of nothing
\* more: the tokens parse() took are the tokens of the tree it returns, so
\* that every '-' in the place of an operand is one Negate in the tree, and
\* the operand of a Negate is a Negate, a Number or a Grouping, never a binary
\* operation ("-1 + 2" is Add(Negate(1), 2)); and the n-fold Negate of any
\* operand evaluates to the operand's value with its sign flipped n times.
C4_NegationComposes ==
    original = None =>
        LET n == LeadingMinus(tokens)
            rest == SubSeq(tokens, n + 1, Len(tokens))
            taken == SubSeq(tokens, 1, current_token_index)
        IN  /\ phase \in {"parsed", "evaluated"} /\ n > 0 /\ Len(rest) = 1
               /\ IsNumber(rest[1])
               => /\ parse_result = Ok(Negations(n, rest[1]))
                  /\ phase = "evaluated" => value = Ok(Flipped(n, rest[1][2]))
            /\ phase = "parsed" /\ n > 0 /\ Len(rest) = 3
               /\ IsNumber(rest[1]) /\ IsNumber(rest[3])
               /\ rest[2] \in {Plus, Minus, Star, Slash}
               => parse_result = Ok(Binary(rest[2], Negations(n, rest[1]), rest[3]))
            /\ phase \in {"parsed", "evaluated"} /\ IsOk(parse_result)
               => /\ TokensOf(ast) = taken
                  /\ \A e \in Nodes(ast) :
                        e[1] = "Negate" => e[2][1] \in {"Negate", "Number", "Grouping"}
                  /\ \A i \in 1..Len(taken) : \A k \in 1..(Len(taken) - i) :
                        /\ OperandPosition(taken, i)
                        /\ \A m \in i..(i + k - 1) : taken[m] = Minus
                        /\ IsNumber(taken[i + k]) \/ taken[i + k] = LeftParen
                        => \E p \in Nodes(ast) :
                              /\ p[1] \in {"Number", "Grouping"}
                              /\ TokensOf(p) = SubSeq(taken, i + k,
                                                      PrimaryEnd(taken, i + k))
                              /\ Negations(k, p) \in Nodes(ast)
                  /\ \A e \in Nodes(ast) : \A k \in 1..Len(taken) :
                        /\ Negations(k, e) \in Nodes(ast)
                              => Evaluator_visit_expression(Negations(k, e))
                                    = NegatedValue(k, e)
                        /\ phase = "evaluated" /\ ast = Negations(k, e)
                              => value = NegatedValue(k, e)

\* "--(1)": two '-' before a primary in brackets, evaluated to 1
C4_Witness ==
    /\ phase = "evaluated"
    /\ tokens = <<Minus, Minus, LeftParen, Number(F64OfInt(1)), RightParen>>
    /\ ast = Negate(Negate(Grouping(Number(F64OfInt(1)))))
    /\ value = Ok(F64OfInt(1))

(***************************************************************************)
(* The grammar read from left to right.  A position of a token sequence    *)
(* either requires an operand (the start, after a binary operator, after   *)
(* a unary '-', after '(') or follows a complete operand; depth counts the *)
(* '(' still open.  Scan reads on while the next token can continue an     *)
(* expression and reports where it stops:                                  *)
(*   at      the position of the token it stops at, Len + 1 for the end    *)
(*   operand TRUE when an operand was required there                       *)
(*   depth   the '(' open there                                            *)
(* The tokens before a stop that follows an operand at depth 0 are a       *)
(* complete expression with balanced brackets.                             *)
(***************************************************************************)
BinaryOperators == {Plus, Minus, Star, Slash}

RECURSIVE Scan(_, _, _, _)
Scan(ts, at, operand, depth) ==
    LET stop == [at |-> at, operand |-> operand, depth |-> depth]
    IN  IF at > Len(ts) THEN stop
        ELSE IF operand
        THEN CASE IsNumber(ts[at]) -> Scan(ts, at + 1, FALSE, depth)
               [] ts[at] = LeftParen -> Scan(ts, at + 1, TRUE, depth + 1)
               [] ts[at] = Minus -> Scan(ts, at + 1, TRUE, depth)
               [] OTHER -> stop
        ELSE CASE ts[at] \in BinaryOperators -> Scan(ts, at + 1, TRUE, depth)
               [] ts[at] = RightParen /\ depth > 0 -> Scan(ts, at + 1, FALSE, depth - 1)
               [] OTHER -> stop

Stop == Scan(tokens, 1, TRUE, 0)
AtEnd(s) == s.at > Len(tokens)
StopToken(s) == IF AtEnd(s) THEN None ELSE tokens[s.at]

\* the whole token sequence is one expression of the grammar
WellFormed(ts) ==
    LET s == Scan(ts, 1, TRUE, 0)
    IN  s.at > Len(ts) /\ ~s.operand /\ s.depth = 0

\* C5: a ')' after a complete expression with balanced brackets makes parse()
\* fail with "Too many ')'.", whatever follows the ')'.
C5_TooManyClosing ==
    Parsed /\ ~Stop.operand /\ Stop.depth = 0 /\ StopToken(Stop) = RightParen
        => parse_result = Err(SyntaxError("Too many ')'."))

\* "(1))" followed by more tokens
C5_Witness ==
    /\ Parsed
    /\ ~Stop.operand /\ Stop.depth = 0 /\ StopToken(Stop) = RightParen
    /\ Stop.at = 4 /\ Len(tokens) > 4
    /\ tokens[1] = LeftParen
    /\ parse_result = Err(SyntaxError("Too many ')'."))

\* C6: inside an open '(' , after a complete expression, anything but ')'
\* (the end of the input, a number, another '(') makes parse() fail with
\* "Expect ')' after expression.".
C6_UnclosedBracket ==
    Parsed /\ ~Stop.operand /\ Stop.depth > 0
        => /\ StopToken(Stop) = None \/ IsNumber(StopToken(Stop))
                \/ StopToken(Stop) = LeftParen
           /\ parse_result = Err(SyntaxError("Expect ')' after expression."))

\* a number where the ')' of a nested bracket should be, as in "((1)2)"
C6_Witness ==
    /\ Parsed
    /\ ~Stop.operand /\ Stop.depth > 0 /\ IsNumber(StopToken(Stop))
    /\ Stop.at > 3 /\ tokens[Stop.at - 1] = RightParen
    /\ parse_result = Err(SyntaxError("Expect ')' after expression."))

\* C7: where an operand is required, a token that is no number, no '(' and no
\* '-', or the end of the input, makes parse() fail with
\* "Expected number or '('."; a ')' there is reported so too.
C7_ExpectedOperand ==
    Parsed /\ Stop.operand
        => /\ StopToken(Stop) \in {None, Plus, Star, Slash, RightParen}
           /\ parse_result = Err(SyntaxError("Expected number or '('."))

\* a ')' right after '(' , inside an expression
C7_Witness ==
    /\ Parsed
    /\ Stop.operand /\ StopToken(Stop) = RightParen /\ Stop.at > 2
    /\ tokens[Stop.at - 1] = LeftParen
    /\ parse_result = Err(SyntaxError("Expected number or '('."))

\* C8: a '(' after a complete expression at depth 0 makes parse() fail with
\* "Unexpected '('."; after a complete operand inside an open bracket it is
\* not reported with this message.
C8_UnexpectedOpening ==
    Parsed /\ ~Stop.operand /\ StopToken(Stop) = LeftParen
        => IF Stop.depth = 0
           THEN parse_result = Err(SyntaxError("Unexpected '('."))
           ELSE parse_result # Err(SyntaxError("Unexpected '('."))

\* "1 * 1 (" followed by more tokens
C8_Witness ==
    /\ Parsed
    /\ ~Stop.operand /\ Stop.depth = 0 /\ StopToken(Stop) = LeftParen
    /\ Stop.at = 4 /\ tokens[2] = Star /\ Len(tokens) > 4
    /\ parse_result = Err(SyntaxError("Unexpected '('."))

(***************************************************************************)
(* Arithmetic on trees, apart from the visitor.                            *)
(***************************************************************************)
\* the value of a tree none of whose divisors is zero
RECURSIVE Arithmetic(_)
Arithmetic(e) ==
    CASE e[1] = "Number" -> e[2]
      [] e[1] = "Add" -> F64Add(Arithmetic(e[2]), Arithmetic(e[3]))
      [] e[1] = "Subtract" -> F64Sub(Arithmetic(e[2]), Arithmetic(e[3]))
      [] e[1] = "Multiply" -> F64Mul(Arithmetic(e[2]), Arithmetic(e[3]))
      [] e[1] = "Divide" -> F64Div(Arithmetic(e[2]), Arithmetic(e[3]))
      [] e[1] = "Negate" -> F64Neg(Arithmetic(e[2]))
      [] e[1] = "Grouping" -> Arithmetic(e[2])

\* some Divide node of e has a right operand that evaluates to zero
ZeroDivisor(e) ==
    \E d \in Nodes(e) :
        /\ d[1] = "Divide"
        /\ IsOk(Evaluator_visit_expression(d[3]))
        /\ IsZero(Evaluator_visit_expression(d[3])[2])

\* C9: evaluating a tree is the error "Division by zero" exactly when some
\* Divide node of it has a right operand that evaluates to zero, and is the
\* arithmetic value of the tree otherwise.
C9_DivisionByZero ==
    phase = "evaluated" =>
        IF ZeroDivisor(ast)
        THEN value = Err(EvaluatorError("Division by zero"))
        ELSE value = Ok(Arithmetic(ast))

\* a divisor that is a difference evaluating to zero, not a literal 0
C9_Witness ==
    /\ phase = "evaluated"
    /\ value = Err(EvaluatorError("Division by zero"))
    /\ ast[1] = "Divide" /\ ast[3][1] = "Subtract"
    /\ Evaluator_visit_expression(ast[3]) = Ok(F64OfInt(0))
    /\ Evaluator_visit_expression(ast[2]) = Ok(F64OfInt(1))

\* C10: for a well-formed expression, parse() returns a tree, the tokens of
\* its rendering are the tokens of the expression, brackets included, and
\* parsing the rendering returns the same tree.
C10_RoundTrip ==
    /\ Parsed /\ WellFormed(tokens) => IsOk(parse_result)
    /\ original # None /\ WellFormed(original[3]) =>
          /\ phase # "start" => new_result = Ok(original[3])
          /\ phase = "parsed" => parse_result = Ok(original[4])

\* no number of ts is an infinity: no literal was above every finite f64
FiniteLiterals(ts) == \A i \in DOMAIN ts : IsNumber(ts[i]) => IsFinite(ts[i][2])

\* C10, amended: for a well-formed expression parse() returns a tree, and
\* when no number literal of it is so large that it is read as infinity, the
\* tokens of the rendering are the tokens of the expression, brackets
\* included, and parsing the rendering returns the same tree.
C10_RoundTripFinite ==
    /\ Parsed /\ WellFormed(tokens) => IsOk(parse_result)
    /\ original # None /\ WellFormed(original[3]) /\ FiniteLiterals(original[3]) =>
          /\ phase # "start" => new_result = Ok(original[3])
          /\ phase = "parsed" => parse_result = Ok(original[4])

\* "(0.100000000000000005)" rendered as "(0.1)" and parsed again
C10_Witness ==
    /\ original # None /\ phase = "parsed"
    /\ WellFormed(original[3]) /\ FiniteLiterals(original[3])
    /\ Len(original[2]) = 22
    /\ input = <<"(", "0", ".", "1", ")">>
    /\ original[4][1] = "Grouping" /\ IsNumber(original[4][2])
    /\ ast = original[4]

(***************************************************************************)
(* Characters and lexemes of an input, apart from the tokenizer.           *)
(***************************************************************************)
NumberCharacters == Digits \cup {"."}
TokenCharacters == {"+", "-", "*", "/", "(", ")"}

\* position i of s continues a number: a digit starts an unbroken run of
\* digits and '.' that reaches i
InNumber(s, i) ==
    \E j \in 1..(i - 1) :
        s[j] \in Digits /\ \A k \in j..i : s[k] \in NumberCharacters

\* the last position of the run of digits and '.' that starts at i
RECURSIVE RunEnd(_, _)
RunEnd(s, i) ==
    IF i < Len(s) /\ s[i + 1] \in NumberCharacters THEN RunEnd(s, i + 1) ELSE i

\* C11: only ' ' is skipped: a character that is no space, none of + - * / ( )
\* and no part of a number (a tab, '#', a '.' that follows no digit) makes
\* the tokenizer yield InvalidCharacter of exactly that character, after the
\* items of the text to its left, which are the items that text yields alone.
C11_InvalidCharacter ==
    phase # "start" /\ original = None =>
        \A i \in 1..Len(input) :
            LET c == input[i]
                left == Items(SubSeq(input, 1, i - 1))
                all == Items(input)
            IN  /\ c \notin {" "} \cup TokenCharacters \cup Digits
                /\ ~(c = "." /\ InNumber(input, i))
                => /\ Len(all) > Len(left)
                   /\ SubSeq(all, 1, Len(left)) = left
                   /\ all[Len(left) + 1] = Err(InvalidCharacter(c))

\* "1 ." and the like: a number, a space, then a '.' that follows no digit
C11_Witness ==
    /\ phase = "failed"
    /\ Len(input) = 3
    /\ input[1] \in Digits /\ input[2] = " " /\ input[3] = "."
    /\ Items(input) = <<Ok(Number(F64OfInt(DigitValue(input[1])))),
                        Err(InvalidCharacter("."))>>
    /\ new_result = Err(UnexpectedToken(InvalidCharacter(".")))

\* C12: a digit that continues no number starts a lexeme that takes the whole
\* following run of digits and '.'; the run yields one item, a Number when it
\* holds at most one '.' and InvalidNumber when it holds more, between the
\* items of the text before it and the items of the text after it.
C12_NumberLexeme ==
    phase # "start" /\ original = None =>
        \A i \in 1..Len(input) :
            input[i] \in Digits /\ ~InNumber(input, i) =>
                LET j == RunEnd(input, i)
                    lexeme == SubSeq(input, i, j)
                    left == Items(SubSeq(input, 1, i - 1))
                    right == Items(SubSeq(input, j + 1, Len(input)))
                    all == Items(input)
                IN  /\ Len(all) = Len(left) + 1 + Len(right)
                    /\ SubSeq(all, 1, Len(left)) = left
                    /\ SubSeq(all, Len(left) + 2, Len(all)) = right
                    /\ IF Cardinality(DotPositions(lexeme)) <= 1
                       THEN IsOk(all[Len(left) + 1])
                            /\ IsNumber(all[Len(left) + 1][2])
                       ELSE all[Len(left) + 1] = Err(InvalidNumber)

\* "1.." : one lexeme with two '.', one InvalidNumber and nothing else
C12_Witness ==
    /\ phase = "failed"
    /\ Len(input) = 3
    /\ input[1] \in Digits /\ input[2] = "." /\ input[3] = "."
    /\ Items(input) = <<Err(InvalidNumber)>>
    /\ new_result = Err(UnexpectedToken(InvalidNumber))

\* line is "exit" in some letter case
IsExit(line) ==
    /\ Len(line) = 4
    /\ line[1] \in {"e", "E"} /\ line[2] \in {"x", "X"}
    /\ line[3] \in {"i", "I"} /\ line[4] \in {"t", "T"}

\* the calls on the console so far are the banner and then rounds of prompt,
\* line read and one line written; a line of exit_lines is answered by
\* nothing and is the last call, and the loop has ended exactly when one was
\* read
ConsoleProtocol(exit_lines) ==
    LET n == Len(console)
        last_is_exit == n > 0 /\ console[n][1] = "readline"
                              /\ console[n][2] \in exit_lines
    IN  /\ \A i \in 1..n :
            CASE i = 1 -> console[i] = ConsolePrintln(Banner)
              [] i > 1 /\ (i - 2) % 3 = 0 -> console[i] = ConsolePrint(Prompt)
              [] i > 1 /\ (i - 2) % 3 = 1 ->
                    /\ console[i][1] = "readline"
                    /\ console[i][2] \in exit_lines => i = n
              [] OTHER ->
                    /\ console[i][1] = "println"
                    /\ console[i - 1][2] \notin exit_lines
        /\ run_pc = "done" <=> last_is_exit

\* run's next step is the evaluation of the tree or the line of the value,
\* and what the step computes is there to be written
Computes ==
    \/ /\ phase = "parsed" /\ ast # None
       /\ Evaluator_visit_expression(ast)[1] \in {"Ok", "Err"}
    \/ /\ run_pc = "match" /\ phase = "evaluated" /\ IsOk(value)
       /\ F64ToString(value[2]) # <<>>

\* until the loop has ended run always has a next step, whatever became of
\* the line, unless it waits for a line the console does not have
\* (Parser::new, which starts on every line read, is left to its definition);
\* once it has ended nothing more happens
RunGoesOn ==
    /\ run_pc = "done" => ~ENABLED NextRun
    /\ run_pc # "done" /\ ~(run_pc = "readline" /\ LinesRead = MaxRunLines)
        => phase = "start" \/ Computes \/ ENABLED NextRun

\* C13: Calculator.run writes the banner once and then, again and again, the
\* prompt, reads a line and writes exactly one line for it, so that an error
\* never ends the loop; the loop has ended exactly when a line that is "exit"
\* in any letter case was read, and then nothing more happens.
C13_RunLoop ==
    /\ ConsoleProtocol({line \in RunLines : IsExit(line)})
    /\ RunGoesOn

\* C13, amended: the same, and the loop has ended exactly when a line was
\* read whose to_uppercase is "EXIT", which "exit" in any letter case is, and
\* "exit" with a dotless i (U+0131) as well.
C13_UppercaseIsExit ==
    /\ ConsoleProtocol({line \in RunLines : to_uppercase(line) = EXIT})
    /\ RunGoesOn

\* run wrote the error of "2#", went on to write the result of "1 + 2" and
\* ended on "exit" with a dotless i
C13_Witness ==
    /\ run_pc = "done"
    /\ Len(console) = 9
    /\ console[3] = ConsoleReadline(<<"2", "#">>)
    /\ console[4] = ConsolePrintln(<<"Syntax error: ", "Unexpected token '", "#", "'">>)
    /\ console[5] = ConsolePrint(Prompt)
    /\ console[6] = ConsoleReadline(<<"1", " ", "+", " ", "2">>)
    /\ console[7] = ConsolePrintln(<<"3">>)
    /\ console[9] = ConsoleReadline(<<"e", "x", "U+0131", "t">>)

\* C14: the line run writes for an input that fails is the error's message:
\* "Division by zero" when the evaluation divided by zero, and the text
\* "Syntax error: ..." of the tokenizing or parsing error otherwise.
C14_ErrorLine ==
    run_pc = "prompt" /\ Len(console) > 1 =>
        LET line == console[Len(console)]
        IN  /\ phase = "evaluated" /\ IsErr(value)
                => line = ConsolePrintln(<<"Division by zero">>)
            /\ phase = "failed"
                => line = ConsolePrintln(<<"Syntax error: ">>
                                            \o TokenizingErrorDisplay(new_result[2][2]))
            /\ phase = "parsed"
                => line = ConsolePrintln(<<"Syntax error: ", parse_result[2][2]>>)

\* what run writes for a division by zero
C14_DebugLine ==
    run_pc = "prompt" /\ phase = "evaluated" /\ IsErr(value) =>
        console[Len(console)] =
            ConsolePrintln(<<"EvaluatorError { message: ", "\"", "Division by zero", "\"", " }">>)

\* C15: when parse() returns an Expression the cursor is on the end of the
\* tokens: nothing is left over after the expression.
C15_AllTokensConsumed ==
    Parsed /\ IsOk(parse_result) => current_token_index = Len(tokens)

\* how many of ts are the token t
Count(ts, t) == Cardinality({i \in DOMAIN ts : ts[i] = t})

\* the tokens the parser has taken as part of the expression: all the cursor
\* has passed, but for the one (or the end) that primary or
\* consume_right_paren moved over and rejected
Taken ==
    LET rejected == /\ IsErr(ret)
                    /\ ret[2] \in {SyntaxError("Expected number or '('."),
                                   SyntaxError("Expect ')' after expression.")}
    IN  SubSeq(tokens, 1, IF rejected THEN current_token_index - 1
                          ELSE current_token_index)

\* C16: all through parse(), bracket_count is the number of '(' taken whose
\* ')' has not been taken yet; it never falls below zero, and it is zero
\* when parse() returns an Expression.
C16_NestingCounter ==
    phase \in {"parsing", "parsed"} =>
        /\ bracket_count = Count(Taken, LeftParen) - Count(Taken, RightParen)
        /\ bracket_count >= 0
        /\ phase = "parsed" /\ IsOk(parse_result) => bracket_count = 0

\* two '(' are open, the inner expression is parsed and its ')' is next
C16_Witness ==
    /\ phase = "parsing" /\ stack # <<>>
    /\ Top.fn = "primary" /\ Top.pc = "group"
    /\ IsOk(ret) /\ peek = RightParen
    /\ bracket_count = 2
    /\ original = None

\* C17: all through parse() the token under the cursor is read only when the
\* cursor is below tokens.len(); the cursor is never beyond tokens.len() + 1,
\* and it is at most tokens.len() when parse() returns an Expression.
C17_CursorBounds ==
    /\ phase = "parsing" =>
        /\ peek # IndexPanic
        /\ current_token_index <= Len(tokens) + 1
    /\ phase = "parsed" =>
        current_token_index <= (IF IsOk(parse_result) THEN Len(tokens)
                                ELSE Len(tokens) + 1)

\* next() moved the cursor beyond the end of the tokens: an operator with
\* nothing after it, and parse() returned the error
C17_Witness ==
    /\ Parsed /\ IsErr(parse_result)
    /\ Len(tokens) = 2 /\ tokens[2] = Plus
    /\ current_token_index = Len(tokens) + 1

====
